---- MODULE Spec2Model ----
(***************************************************************************)
(* A model of app.py, the MEU Logistics Assistant: the start-up sequence   *)
(* (client construction, the one read of meu_logistics_data.csv, the       *)
(* construction of SYSTEM_PROMPT, the launch of the chat interface) and    *)
(* the chat(message, history) callback, one frame per chat session.        *)
(* Texts are sequences of one-character strings.                           *)
(***************************************************************************)
EXTENDS Naturals, Sequences, FiniteSets, TLC

VARIABLES
    apiKey,         \* environment: whether OpenAI() finds its credentials
    file,           \* environment: meu_logistics_data.csv on disk
    mainpc,         \* position of the module-level code
    reads,          \* number of open() calls made on the data file
    DATA,           \* module global DATA
    SYSTEM_PROMPT,  \* module global SYSTEM_PROMPT
    pc,             \* per session: position of its chat() invocation
    message,        \* per session: the argument `message`
    history,        \* per session: the argument `history` (the surface's list)
    idx,            \* per session: number of turns the for loop has consumed
    messages,       \* per session: the local list `messages`
    request,        \* per session: the request handed to the provider
    nreq,           \* per session: requests issued by the current invocation
    response,       \* per session: what the provider answered
    result,         \* per session: the value chat() returned
    origin          \* per session: how the current invocation was started

vars == <<apiKey, file, mainpc, reads, DATA, SYSTEM_PROMPT, pc, message, history,
          idx, messages, request, nreq, response, result, origin>>

startupVars == <<apiKey, file, mainpc, reads, DATA, SYSTEM_PROMPT>>

chatVars == <<pc, message, history, idx, messages, request, nreq, response,
              result, origin>>

-----------------------------------------------------------------------------
(* Bounds of the model. *)

MaxFileLen == 3
MaxServeFileLen == 1
MaxHist == 2
MaxChoices == 2
MaxConcHist == 1
MaxConcChoices == 1

FileChars == {"a", "\n", "\r"}
UserTexts == {<<>>, <<"q">>}
AssistantTexts == {<<"r">>, <<"s">>}
Sessions == {"s1", "s2"}
SeqSessions == {"s1"}

-----------------------------------------------------------------------------
(* Values. *)

\* A name that is not bound (yet): a value no text equals.
Unbound == <<"<unbound>">>

SeqsUpTo(S, n) == UNION {[1..k -> S] : k \in 0..n}

Turns == UserTexts \X AssistantTexts

Histories(n) == SeqsUpTo(Turns, n)

FilesUpTo(n) ==
    {[kind |-> "missing", bytes |-> <<>>], [kind |-> "unreadable", bytes |-> <<>>]}
        \cup {[kind |-> "text", bytes |-> b] : b \in SeqsUpTo(FileChars, n)}

NoRequest == [model |-> "", messages |-> <<>>]

NoResponse == [kind |-> "none", choices |-> <<>>]

\* What the provider may answer: an API/transport error, or n choices.
Responses(n) ==
    {[kind |-> "error", choices |-> <<>>]}
        \cup {[kind |-> "ok", choices |-> c] : c \in SeqsUpTo(AssistantTexts, n)}

-----------------------------------------------------------------------------
(* Pure functions. *)

\* f.read() of a file opened in text mode: universal newlines.
RECURSIVE ReadText(_)
ReadText(b) ==
    IF b = <<>> THEN <<>>
    ELSE IF Head(b) = "\r"
         THEN <<"\n">> \o ReadText(IF Len(b) >= 2 /\ b[2] = "\n"
                                   THEN SubSeq(b, 3, Len(b))
                                   ELSE Tail(b))
         ELSE <<Head(b)>> \o ReadText(Tail(b))

\* The f-string's text before {DATA}.
TemplateHead ==
    <<
       "Y", "o", "u", " ", "a", "r", "e", " ", "a", " ", "l", "o", "g", "i", "s", "t",
       "i", "c", "s", " ", "a", "n", "a", "l", "y", "s", "t", " ", "f", "o", "r", " ",
       "M", "a", "r", "i", "n", "e", " ", "E", "x", "p", "e", "d", "i", "t", "i", "o",
       "n", "a", "r", "y", " ", "U", "n", "i", "t", " ", "(", "M", "E", "U", ")", " ",
       "o", "p", "e", "r", "a", "t", "i", "o", "n", "s", ".", "\n", "\n", "U", "s", "e",
       " ", "t", "h", "e", " ", "d", "a", "t", "a", " ", "b", "e", "l", "o", "w", " ",
       "t", "o", " ", "a", "n", "s", "w", "e", "r", " ", "q", "u", "e", "s", "t", "i",
       "o", "n", "s", ".", " ", "A", "l", "w", "a", "y", "s", " ", "r", "e", "f", "e",
       "r", "e", "n", "c", "e", " ", "s", "p", "e", "c", "i", "f", "i", "c", " ", "n",
       "u", "m", "b", "e", "r", "s", " ", "w", "i", "t", "h", " ", "u", "n", "i", "t",
       "s", ".", "\n", "\n", "-", "-", "-", " ", "M", "E", "U", " ", "L", "O", "G", "I",
       "S", "T", "I", "C", "S", " ", "D", "A", "T", "A", " ", "-", "-", "-", "\n"
    >>

\* The f-string's text after {DATA}.
TemplateTail ==
    <<
       "\n", "-", "-", "-", " ", "E", "N", "D", " ", "D", "A", "T", "A", " ", "-", "-",
       "-", "\n"
    >>

\* Variant: the data text loses a final newline before it is embedded.
BuildSystemPrompt_stripped(data) ==
    TemplateHead
        \o (IF data # <<>> /\ data[Len(data)] = "\n"
            THEN SubSeq(data, 1, Len(data) - 1)
            ELSE data)
        \o TemplateTail

BuildSystemPrompt(data) == TemplateHead \o data \o TemplateTail

Message(role, content) == [role |-> role, content |-> content]

\* messages = [{"role": "system", "content": SYSTEM_PROMPT}]
InitialMessages(prompt) == <<Message("system", prompt)>>

\* Variant: the loop appends the user text of a turn only.
AppendTurn_userOnly(msgs, turn) == Append(msgs, Message("user", turn[1]))

\* Variant: a turn equal to the one just appended is skipped.
AppendTurn_dedup(msgs, turn) ==
    IF /\ Len(msgs) >= 3
       /\ msgs[Len(msgs) - 1] = Message("user", turn[1])
       /\ msgs[Len(msgs)] = Message("assistant", turn[2])
    THEN msgs
    ELSE msgs \o <<Message("user", turn[1]), Message("assistant", turn[2])>>

\* One iteration of the for loop over history.
AppendTurn(msgs, turn) ==
    msgs \o <<Message("user", turn[1]), Message("assistant", turn[2])>>

\* messages.append({"role": "user", "content": message})
AppendNewMessage(msgs, m) == Append(msgs, Message("user", m))

\* client.chat.completions.create(model="gpt-4o", messages=messages)
MakeRequest(msgs) == [model |-> "gpt-4o", messages |-> msgs]

\* Variant: the last choice is taken instead of the first.
FirstChoice_last(choices) == choices[Len(choices)]

\* response.choices[0].message.content
FirstChoice(choices) == choices[1]

-----------------------------------------------------------------------------
(* Start-up: the module-level code. *)

InitChat ==
    /\ pc = [s \in Sessions |-> "idle"]
    /\ message = [s \in Sessions |-> Unbound]
    /\ history = [s \in Sessions |-> <<>>]
    /\ idx = [s \in Sessions |-> 0]
    /\ messages = [s \in Sessions |-> <<>>]
    /\ request = [s \in Sessions |-> NoRequest]
    /\ nreq = [s \in Sessions |-> 0]
    /\ response = [s \in Sessions |-> NoResponse]
    /\ result = [s \in Sessions |-> Unbound]
    /\ origin = [s \in Sessions |-> "fresh"]

InitStartup(files) ==
    /\ apiKey \in BOOLEAN
    /\ file \in files
    /\ mainpc = "client"
    /\ reads = 0
    /\ DATA = Unbound
    /\ SYSTEM_PROMPT = Unbound

Init == InitStartup(FilesUpTo(MaxServeFileLen)) /\ InitChat

\* client = OpenAI()
MakeClient ==
    /\ mainpc = "client"
    /\ mainpc' = IF apiKey THEN "load" ELSE "crashed"
    /\ UNCHANGED <<apiKey, file, reads, DATA, SYSTEM_PROMPT>>
    /\ UNCHANGED chatVars

\* Variant: a failed read is swallowed and start-up goes on with no data.
LoadData_swallow ==
    /\ mainpc = "load"
    /\ reads' = reads + 1
    /\ DATA' = IF file.kind = "text" THEN ReadText(file.bytes) ELSE <<>>
    /\ mainpc' = "prompt"
    /\ UNCHANGED <<apiKey, file, SYSTEM_PROMPT>>
    /\ UNCHANGED <<pc, message, history, idx, messages, request, nreq, response,
                   result, origin>>

\* with open("meu_logistics_data.csv") as f: DATA = f.read()
LoadData ==
    /\ mainpc = "load"
    /\ reads' = reads + 1
    /\ IF file.kind = "text"
       THEN /\ DATA' = ReadText(file.bytes)
            /\ mainpc' = "prompt"
       ELSE /\ DATA' = DATA
            /\ mainpc' = "crashed"
    /\ UNCHANGED <<apiKey, file, SYSTEM_PROMPT>>
    /\ UNCHANGED chatVars

\* SYSTEM_PROMPT = f"""..."""
BuildPrompt ==
    /\ mainpc = "prompt"
    /\ SYSTEM_PROMPT' = BuildSystemPrompt(DATA)
    /\ mainpc' = "launch"
    /\ UNCHANGED <<apiKey, file, reads, DATA>>
    /\ UNCHANGED chatVars

\* gr.ChatInterface(chat, ...).launch()
Launch ==
    /\ mainpc = "launch"
    /\ mainpc' = "serving"
    /\ UNCHANGED <<apiKey, file, reads, DATA, SYSTEM_PROMPT>>
    /\ UNCHANGED chatVars

-----------------------------------------------------------------------------
(* chat(message, history), one step per statement. *)

Ended(s) == pc[s] \in {"returned", "raised"}

\* Variant: chat() rebinds the global SYSTEM_PROMPT, adding the message to it.
EnterChat_rebinds(s, m, h, how) ==
    /\ message' = [message EXCEPT ![s] = m]
    /\ history' = [history EXCEPT ![s] = h]
    /\ idx' = [idx EXCEPT ![s] = 0]
    /\ SYSTEM_PROMPT' = SYSTEM_PROMPT \o m
    /\ messages' = [messages EXCEPT ![s] = <<Message("system", SYSTEM_PROMPT')>>]
    /\ request' = [request EXCEPT ![s] = NoRequest]
    /\ nreq' = [nreq EXCEPT ![s] = 0]
    /\ response' = [response EXCEPT ![s] = NoResponse]
    /\ result' = [result EXCEPT ![s] = Unbound]
    /\ origin' = [origin EXCEPT ![s] = how]
    /\ pc' = [pc EXCEPT ![s] = "loop"]
    /\ UNCHANGED <<apiKey, file, mainpc, reads, DATA>>

\* The frame of a new invocation, after its first statement.
EnterChat(s, m, h, how) ==
    /\ message' = [message EXCEPT ![s] = m]
    /\ history' = [history EXCEPT ![s] = h]
    /\ idx' = [idx EXCEPT ![s] = 0]
    /\ messages' = [messages EXCEPT ![s] = InitialMessages(SYSTEM_PROMPT)]
    /\ request' = [request EXCEPT ![s] = NoRequest]
    /\ nreq' = [nreq EXCEPT ![s] = 0]
    /\ response' = [response EXCEPT ![s] = NoResponse]
    /\ result' = [result EXCEPT ![s] = Unbound]
    /\ origin' = [origin EXCEPT ![s] = how]
    /\ pc' = [pc EXCEPT ![s] = "loop"]
    /\ UNCHANGED startupVars

\* The chat surface calls chat(m, h) for a session with no call in progress.
ChatBegin(s, m, h) ==
    /\ mainpc = "serving"
    /\ pc[s] = "idle"
    /\ EnterChat(s, m, h, "fresh")

\* The chat surface submits the same message and history again, after the
\* previous call returned or raised.
ChatRetry(s) ==
    /\ mainpc = "serving"
    /\ Ended(s)
    /\ EnterChat(s, message[s], history[s],
                 IF pc[s] = "raised" THEN "afterRaise" ELSE "afterReturn")

\* Variant: the loop consumes the caller's list (history.pop(0)).
ChatLoop_pops(s) ==
    /\ pc[s] = "loop"
    /\ history[s] # <<>>
    /\ messages' = [messages EXCEPT ![s] = AppendTurn(@, Head(history[s]))]
    /\ history' = [history EXCEPT ![s] = Tail(@)]
    /\ UNCHANGED <<pc, message, idx, request, nreq, response, result, origin>>
    /\ UNCHANGED <<apiKey, file, mainpc, reads, DATA, SYSTEM_PROMPT>>

\* for user_msg, assistant_msg in history: two appends
ChatLoop(s) ==
    /\ pc[s] = "loop"
    /\ idx[s] < Len(history[s])
    /\ messages' = [messages EXCEPT ![s] = AppendTurn(@, history[s][idx[s] + 1])]
    /\ idx' = [idx EXCEPT ![s] = @ + 1]
    /\ UNCHANGED <<pc, message, history, request, nreq, response, result, origin>>
    /\ UNCHANGED startupVars

\* Variant: `messages` is one list shared by the invocations in progress.
ChatAppendNew_shared(s) ==
    /\ pc[s] = "loop"
    /\ idx[s] = Len(history[s])
    /\ messages' = [t \in Sessions |->
                       IF pc[t] \in {"loop", "built"}
                       THEN AppendNewMessage(messages[t], message[s])
                       ELSE messages[t]]
    /\ pc' = [pc EXCEPT ![s] = "built"]
    /\ UNCHANGED <<message, history, idx, request, nreq, response, result, origin>>
    /\ UNCHANGED <<apiKey, file, mainpc, reads, DATA, SYSTEM_PROMPT>>

\* messages.append({"role": "user", "content": message})
ChatAppendNew(s) ==
    /\ pc[s] = "loop"
    /\ idx[s] = Len(history[s])
    /\ messages' = [messages EXCEPT ![s] = AppendNewMessage(@, message[s])]
    /\ pc' = [pc EXCEPT ![s] = "built"]
    /\ UNCHANGED <<message, history, idx, request, nreq, response, result, origin>>
    /\ UNCHANGED startupVars

\* Variant: an input that was just answered is served from a cache, and no
\* request leaves.
ChatCreate_cached(s) ==
    /\ pc[s] = "built"
    /\ IF origin[s] = "afterReturn"
       THEN UNCHANGED <<request, nreq>>
       ELSE /\ request' = [request EXCEPT ![s] = MakeRequest(messages[s])]
            /\ nreq' = [nreq EXCEPT ![s] = @ + 1]
    /\ pc' = [pc EXCEPT ![s] = "calling"]
    /\ UNCHANGED <<message, history, idx, messages, response, result, origin>>
    /\ UNCHANGED <<apiKey, file, mainpc, reads, DATA, SYSTEM_PROMPT>>

\* client.chat.completions.create(...): the request leaves
ChatCreate(s) ==
    /\ pc[s] = "built"
    /\ request' = [request EXCEPT ![s] = MakeRequest(messages[s])]
    /\ nreq' = [nreq EXCEPT ![s] = @ + 1]
    /\ pc' = [pc EXCEPT ![s] = "calling"]
    /\ UNCHANGED <<message, history, idx, messages, response, result, origin>>
    /\ UNCHANGED startupVars

\* Variant: a failure is caught and an empty reply is returned in its place.
ChatFinish_default(s, r) ==
    /\ pc[s] = "calling"
    /\ response' = [response EXCEPT ![s] = r]
    /\ result' = [result EXCEPT ![s] =
                     IF r.kind = "ok" /\ Len(r.choices) > 0
                     THEN FirstChoice(r.choices)
                     ELSE <<>>]
    /\ pc' = [pc EXCEPT ![s] = "returned"]
    /\ UNCHANGED <<message, history, idx, messages, request, nreq, origin>>
    /\ UNCHANGED <<apiKey, file, mainpc, reads, DATA, SYSTEM_PROMPT>>

\* create() comes back with r, and chat() returns response.choices[0].message.content
\* or ends in the error create() raised, or in the IndexError of choices[0].
ChatFinish(s, r) ==
    /\ pc[s] = "calling"
    /\ response' = [response EXCEPT ![s] = r]
    /\ IF r.kind = "ok" /\ Len(r.choices) > 0
       THEN /\ result' = [result EXCEPT ![s] = FirstChoice(r.choices)]
            /\ pc' = [pc EXCEPT ![s] = "returned"]
       ELSE /\ result' = result
            /\ pc' = [pc EXCEPT ![s] = "raised"]
    /\ UNCHANGED <<message, history, idx, messages, request, nreq, origin>>
    /\ UNCHANGED startupVars

\* The call is over: its frame is discarded.
ChatEnd(s) ==
    /\ Ended(s)
    /\ pc' = [pc EXCEPT ![s] = "idle"]
    /\ message' = [message EXCEPT ![s] = Unbound]
    /\ history' = [history EXCEPT ![s] = <<>>]
    /\ idx' = [idx EXCEPT ![s] = 0]
    /\ messages' = [messages EXCEPT ![s] = <<>>]
    /\ request' = [request EXCEPT ![s] = NoRequest]
    /\ nreq' = [nreq EXCEPT ![s] = 0]
    /\ response' = [response EXCEPT ![s] = NoResponse]
    /\ result' = [result EXCEPT ![s] = Unbound]
    /\ origin' = [origin EXCEPT ![s] = "fresh"]
    /\ UNCHANGED startupVars

-----------------------------------------------------------------------------
(* Specifications. *)

\* One session, calls one after the other.
Next ==
    \/ MakeClient
    \/ LoadData
    \/ BuildPrompt
    \/ Launch
    \/ \E s \in SeqSessions, m \in UserTexts, h \in Histories(MaxHist) : ChatBegin(s, m, h)
    \/ \E s \in SeqSessions : ChatRetry(s)
    \/ \E s \in SeqSessions : ChatLoop(s)
    \/ \E s \in SeqSessions : ChatAppendNew(s)
    \/ \E s \in SeqSessions : ChatCreate(s)
    \/ \E s \in SeqSessions, r \in Responses(MaxChoices) : ChatFinish(s, r)
    \/ \E s \in SeqSessions : ChatEnd(s)

Spec == Init /\ [][Next]_vars

\* Start-up alone, over every data file up to MaxFileLen characters.
InitStartupOnly == InitStartup(FilesUpTo(MaxFileLen)) /\ InitChat

NextStartup ==
    \/ MakeClient
    \/ LoadData
    \/ BuildPrompt
    \/ Launch

SpecStartup == InitStartupOnly /\ [][NextStartup]_vars

\* Two sessions whose calls interleave statement by statement.
ConcFiles == {[kind |-> "text", bytes |-> <<"a", "\r", "\n">>]}

InitConc == InitStartup(ConcFiles) /\ InitChat

NextConc ==
    \/ MakeClient
    \/ LoadData
    \/ BuildPrompt
    \/ Launch
    \/ \E s \in Sessions, m \in UserTexts, h \in Histories(MaxConcHist) : ChatBegin(s, m, h)
    \/ \E s \in Sessions : ChatLoop(s)
    \/ \E s \in Sessions : ChatAppendNew(s)
    \/ \E s \in Sessions : ChatCreate(s)
    \/ \E s \in Sessions, r \in Responses(MaxConcChoices) : ChatFinish(s, r)
    \/ \E s \in Sessions : ChatEnd(s)

SpecConc == InitConc /\ [][NextConc]_vars

-----------------------------------------------------------------------------
(* Properties. *)

\* The invocation of session s has handed its request to the provider.
Sent(s) == request[s] # NoRequest

Roles(msgs) == [k \in 1..Len(msgs) |-> msgs[k].role]

\* [system] ++ flatten(history) ++ [new user message], entry by entry.
ExpectedMessages(prompt, h, m) ==
    [k \in 1..(2 * Len(h) + 2) |->
        IF k = 1 THEN Message("system", prompt)
        ELSE IF k = 2 * Len(h) + 2 THEN Message("user", m)
        ELSE IF k % 2 = 0 THEN Message("user", h[k \div 2][1])
        ELSE Message("assistant", h[(k - 1) \div 2][2])]

\* C1: the list sent for a history of N turns has 2N+2 entries, whose roles
\* are system, then user and assistant alternating, and user last; for N = 0
\* it is [system, user].
C1_LengthAndRoles ==
    \A s \in Sessions :
        Sent(s) =>
            LET msgs == request[s].messages
                n == Len(history[s])
            IN  /\ Len(msgs) = 2 * n + 2
                /\ msgs[1].role = "system"
                /\ \A k \in 2..Len(msgs) :
                       msgs[k].role = IF k % 2 = 0 THEN "user" ELSE "assistant"
                /\ msgs[Len(msgs)].role = "user"
                /\ n = 0 => Roles(msgs) = <<"system", "user">>

C1_Witness ==
    \E s \in Sessions :
        /\ Sent(s)
        /\ Len(history[s]) = 2
        /\ Roles(request[s].messages)
               = <<"system", "user", "assistant", "user", "assistant", "user">>

\* C2: the list sent carries SYSTEM_PROMPT first, then for every turn its
\* user text and its assistant text in the order of the history, then the
\* new message, all unmodified; identical turns are both kept.
C2_OrderAndContent ==
    \A s \in Sessions :
        Sent(s) =>
            LET msgs == request[s].messages
                h == history[s]
            IN  /\ Len(msgs) = 2 * Len(h) + 2
                /\ msgs[1].content = SYSTEM_PROMPT
                /\ \A j \in 1..Len(h) :
                       /\ msgs[2 * j] = Message("user", h[j][1])
                       /\ msgs[2 * j + 1] = Message("assistant", h[j][2])
                /\ msgs[Len(msgs)] = Message("user", message[s])

C2_Witness ==
    \E s \in Sessions :
        /\ Sent(s)
        /\ Len(history[s]) = 2
        /\ history[s][1] = history[s][2]
        /\ request[s].messages[2] = request[s].messages[4]
        /\ request[s].messages[3] = request[s].messages[5]

\* C3: when the provider answers with at least one choice, chat() returns
\* the content of the first choice, whatever else the response carries.
C3_FirstChoiceReturned ==
    \A s \in Sessions :
        /\ (Ended(s) /\ response[s].kind = "ok" /\ Len(response[s].choices) >= 1)
               => (pc[s] = "returned" /\ result[s] = response[s].choices[1])
        /\ pc[s] = "returned"
               => (response[s].kind = "ok" /\ Len(response[s].choices) >= 1)

C3_Witness ==
    \E s \in Sessions :
        /\ pc[s] = "returned"
        /\ Len(response[s].choices) = 2
        /\ response[s].choices[1] # response[s].choices[2]
        /\ result[s] = response[s].choices[1]
        /\ Len(history[s]) > 0

\* C4: the prompt built at start-up is the fixed header, then the data text
\* as it was read, then the fixed footer: it contains the data as a
\* contiguous substring between the two, is never empty, and nothing but
\* the data text decides it.
C4_PromptContainsData ==
    SYSTEM_PROMPT # Unbound =>
        LET hl == Len(TemplateHead)
            dl == Len(DATA)
        IN  /\ DATA = ReadText(file.bytes)
            /\ Len(SYSTEM_PROMPT) = hl + dl + Len(TemplateTail)
            /\ Len(SYSTEM_PROMPT) > 0
            /\ SubSeq(SYSTEM_PROMPT, 1, hl) = TemplateHead
            /\ SubSeq(SYSTEM_PROMPT, hl + 1, hl + dl) = DATA
            /\ SubSeq(SYSTEM_PROMPT, hl + dl + 1, Len(SYSTEM_PROMPT)) = TemplateTail

C4_Witness ==
    /\ SYSTEM_PROMPT # Unbound
    /\ Len(DATA) >= 2
    /\ \E k \in 1..Len(DATA) : DATA[k] = "\n"
    /\ SubSeq(SYSTEM_PROMPT, Len(TemplateHead) + 1, Len(TemplateHead) + Len(DATA)) = DATA

\* C5: an invocation of chat() hands exactly one request to the provider:
\* none before the create() call, one from then on, whether the call then
\* succeeds or fails, and also when the same input was sent just before.
C5_OneRequestPerInvocation ==
    \A s \in Sessions :
        /\ pc[s] \in {"idle", "loop", "built"} => (nreq[s] = 0 /\ ~Sent(s))
        /\ pc[s] \in {"calling", "returned", "raised"} => (nreq[s] = 1 /\ Sent(s))

C5_Witness ==
    \E s \in Sessions :
        /\ origin[s] = "afterReturn"
        /\ pc[s] = "raised"
        /\ nreq[s] = 1

\* C6: a provider failure (an error raised by the request, or a response
\* with no choice) ends the invocation in an error: no value is returned,
\* no second request is made, and the invocation that follows a failed one
\* sends the request its own input defines.
C6_FailurePropagates ==
    \A s \in Sessions :
        /\ (Ended(s) /\ (response[s].kind = "error" \/ response[s].choices = <<>>))
               => (pc[s] = "raised" /\ result[s] = Unbound /\ nreq[s] = 1)
        /\ pc[s] = "raised" => result[s] = Unbound
        /\ (origin[s] = "afterRaise" /\ Sent(s))
               => request[s].messages
                      = ExpectedMessages(SYSTEM_PROMPT, history[s], message[s])

C6_Witness ==
    \E s \in Sessions :
        /\ pc[s] = "raised"
        /\ response[s].kind = "ok"
        /\ response[s].choices = <<>>
        /\ result[s] = Unbound

\* C7: the data file is opened at most once, before SYSTEM_PROMPT is built
\* and before the chat interface is launched; when it is missing or
\* unreadable the process ends there, and no chat() invocation and no
\* provider request ever happens.
C7_StartupOrder ==
    /\ reads <= 1
    /\ mainpc \in {"prompt", "launch", "serving"}
           => (reads = 1 /\ file.kind = "text" /\ DATA = ReadText(file.bytes))
    /\ SYSTEM_PROMPT # Unbound => (reads = 1 /\ DATA # Unbound)
    /\ mainpc = "serving" => SYSTEM_PROMPT # Unbound
    /\ (\E s \in Sessions : pc[s] # "idle" \/ nreq[s] > 0 \/ Sent(s))
           => (mainpc = "serving" /\ reads = 1)
    /\ file.kind # "text" => mainpc \in {"client", "load", "crashed"}

C7_Witness ==
    /\ file.kind = "missing"
    /\ mainpc = "crashed"
    /\ reads = 1
    /\ SYSTEM_PROMPT = Unbound

\* C8: once built, SYSTEM_PROMPT never changes, whatever chat() invocations
\* run and however they end, and the system message of every request sent
\* carries it.
C8_PromptImmutable ==
    /\ [][SYSTEM_PROMPT # Unbound => SYSTEM_PROMPT' = SYSTEM_PROMPT]_vars
    /\ [](mainpc = "serving" => SYSTEM_PROMPT = BuildSystemPrompt(ReadText(file.bytes)))
    /\ [](\A s \in Sessions :
              Sent(s) => request[s].messages[1] = Message("system", SYSTEM_PROMPT))

C8_Witness ==
    \E s \in Sessions :
        /\ origin[s] = "afterRaise"
        /\ pc[s] = "returned"
        /\ request[s].messages[1].content = BuildSystemPrompt(DATA)

\* C9: while an invocation runs, and after it has returned or raised, the
\* history and the message it was given are what they were when it began,
\* and the request it sends is the one its own message, its own history and
\* SYSTEM_PROMPT define.
C9_HistoryReadOnly ==
    /\ [][\A s \in Sessions :
              pc[s] \in {"loop", "built", "calling"}
                  => (history'[s] = history[s] /\ message'[s] = message[s])]_vars
    /\ [](\A s \in Sessions :
              Sent(s) => request[s].messages
                             = ExpectedMessages(SYSTEM_PROMPT, history[s], message[s]))

C9_Witness ==
    \E s \in Sessions :
        /\ pc[s] = "raised"
        /\ origin[s] = "afterReturn"
        /\ Len(history[s]) = 2
        /\ history[s][1] # history[s][2]

\* C10: with two invocations in progress at once, under every interleaving
\* of their statements, the list each one builds and the request each one
\* sends hold only its own turns and its own new message, and each returns
\* the first choice of the response to its own request.
C10_Isolation ==
    \A s \in Sessions :
        /\ pc[s] = "loop"
               => messages[s]
                      = SubSeq(ExpectedMessages(SYSTEM_PROMPT, history[s], message[s]),
                               1, 2 * idx[s] + 1)
        /\ pc[s] = "built"
               => messages[s] = ExpectedMessages(SYSTEM_PROMPT, history[s], message[s])
        /\ Sent(s) => request[s].messages
                          = ExpectedMessages(SYSTEM_PROMPT, history[s], message[s])
        /\ pc[s] = "returned" => result[s] = response[s].choices[1]

C10_Witness ==
    /\ pc["s1"] = "calling"
    /\ pc["s2"] = "calling"
    /\ history["s1"] # history["s2"]
    /\ message["s1"] # message["s2"]
    /\ request["s1"].messages # request["s2"].messages

====
